---- MODULE Spec2Model ----
(***************************************************************************)
(* The scanner of the Lox interpreter (src/src/main.rs) as a state         *)
(* machine.  A source text is a sequence of characters (Unicode scalar     *)
(* values); a character is a one-character string, except the two-byte     *)
(* character U+00E9, which is written "U+00E9".  The scanner's cursors      *)
(* count characters, while str::get slices by UTF-8 byte offsets: both are  *)
(* modelled.  A failed unwrap() is a panic: the scan stops with             *)
(* pc = "panicked".                                                         *)
(***************************************************************************)
EXTENDS Naturals, Sequences, FiniteSets

VARIABLES source, tokens, start, current, line, has_errors, stderr, stdout, pc,
          node, result

vars == <<source, tokens, start, current, line, has_errors, stderr, stdout, pc,
          node, result>>

(* ------------------------------ bounds -------------------------------- *)

\* Longest source text of the general specification Spec.
MaxLen == 4

\* Longest source text of the lexeme specification SpecLex.
MaxLexLen == 4

\* Longest source text of SpecWord (numbers and identifiers).
MaxWordLen == 5

\* Longest source text of SpecComment (block comments).
MaxCommentLen == 7

\* Longest source text of SpecError (diagnostics).
MaxErrorLen == 5

(* ---------------------------- characters ------------------------------ *)

\* A character encoded in two UTF-8 bytes.
EAcute == "U+00E9"

\* '\0', what peek and peek_next return at the end of the input.
NUL == "NUL"

Digits == {"0", "1", "2", "3", "4", "5", "6", "7", "8", "9"}

Letters ==
    {"a", "b", "c", "d", "e", "f", "g", "h", "i", "j", "k", "l", "m",
     "n", "o", "p", "q", "r", "s", "t", "u", "v", "w", "x", "y", "z",
     "A", "B", "C", "D", "E", "F", "G", "H", "I", "J", "K", "L", "M",
     "N", "O", "P", "Q", "R", "S", "T", "U", "V", "W", "X", "Y", "Z", "_"}

is_alpha(c) == c \in Letters

is_digit(val) == val \in Digits

is_alpha_numeric(c) == is_digit(c) \/ is_alpha(c)

\* char::len_utf8: the number of bytes of a character in the source String.
len_utf8(c) == IF c = EAcute THEN 2 ELSE 1

(* ------------------------- byte-indexed slicing ------------------------ *)

RECURSIVE ByteOffset(_, _)
\* The byte offset at which the character with 0-based index i starts
\* (i = Len(src): the byte length of the text).
ByteOffset(src, i) ==
    IF i = 0 THEN 0 ELSE ByteOffset(src, i - 1) + len_utf8(src[i])

is_char_boundary(src, b) == \E i \in 0..Len(src) : ByteOffset(src, i) = b

None == [some |-> FALSE, chars |-> <<>>]

\* str::get(a..b): a and b are BYTE offsets.  None when a > b, when b is past
\* the end, or when a or b is not on a character boundary.
str_get(src, a, b) ==
    IF a <= b /\ is_char_boundary(src, a) /\ is_char_boundary(src, b)
    THEN LET first == CHOOSE i \in 0..Len(src) : ByteOffset(src, i) = a
             last == CHOOSE i \in 0..Len(src) : ByteOffset(src, i) = b
         IN [some |-> TRUE, chars |-> SubSeq(src, first + 1, last)]
    ELSE None

(* ------------------------------ literals ------------------------------- *)

Literal_NULL == [kind |-> "NULL", text |-> <<>>, mant |-> 0, scale |-> 0, precision |-> 0]

Literal_String(chars) ==
    [kind |-> "String", text |-> chars, mant |-> 0, scale |-> 0, precision |-> 0]

\* Literal::Number(f, p): the value f is mant / 10^scale.
Literal_Number(f, p) ==
    [kind |-> "Number", text |-> <<>>, mant |-> f.mant, scale |-> f.scale, precision |-> p]

DigitVal(c) ==
    CASE c = "0" -> 0 [] c = "1" -> 1 [] c = "2" -> 2 [] c = "3" -> 3 [] c = "4" -> 4
      [] c = "5" -> 5 [] c = "6" -> 6 [] c = "7" -> 7 [] c = "8" -> 8 [] c = "9" -> 9

DigitChar(d) == <<"0", "1", "2", "3", "4", "5", "6", "7", "8", "9">>[d + 1]

RECURSIVE DigitsToNat(_)
DigitsToNat(ds) ==
    IF ds = <<>> THEN 0
    ELSE 10 * DigitsToNat(SubSeq(ds, 1, Len(ds) - 1)) + DigitVal(ds[Len(ds)])

RECURSIVE NatToDigits(_)
NatToDigits(n) ==
    IF n < 10 THEN <<DigitChar(n)>> ELSE Append(NatToDigits(n \div 10), DigitChar(n % 10))

RECURSIVE Pow10(_)
Pow10(k) == IF k = 0 THEN 1 ELSE 10 * Pow10(k - 1)

SelectDigits(chars) == SelectSeq(chars, LAMBDA c : c \in Digits)

DotCount(chars) == Len(SelectSeq(chars, LAMBDA c : c = "."))

\* str::parse::<f32> on a text of digits and dots: Err unless the text has a
\* digit, at most one dot and no other character.  The value of "d.f" is
\* (digits of d.f read as a number) / 10^(digits after the dot).
parse_f32(chars) ==
    IF /\ \A i \in 1..Len(chars) : chars[i] \in Digits \cup {"."}
       /\ DotCount(chars) <= 1
       /\ SelectDigits(chars) # <<>>
    THEN LET dot == IF DotCount(chars) = 0 THEN Len(chars) + 1
                    ELSE CHOOSE i \in 1..Len(chars) : chars[i] = "."
         IN [is_err |-> FALSE,
             mant |-> DigitsToNat(SelectDigits(chars)),
             scale |-> IF dot > Len(chars) THEN 0 ELSE Len(chars) - dot]
    ELSE [is_err |-> TRUE, mant |-> 0, scale |-> 0]

RECURSIVE PadLeft(_, _)
PadLeft(ds, n) == IF Len(ds) >= n THEN ds ELSE PadLeft(<<"0">> \o ds, n)

\* format!("{:>.*}", p, f): f in fixed notation with exactly p decimals
\* (rounded to nearest when p is less than the decimals f has).
FormatFixed(p, mant, scale) ==
    LET scaled == IF p >= scale THEN mant * Pow10(p - scale)
                  ELSE (mant + (Pow10(scale - p) \div 2)) \div Pow10(scale - p)
        int == NatToDigits(scaled \div Pow10(p))
        frac == PadLeft(NatToDigits(scaled % Pow10(p)), p)
    IN IF p = 0 THEN int ELSE int \o <<".">> \o frac

\* impl Display for Literal
Literal_to_string(l) ==
    CASE l.kind = "String" -> l.text
      [] l.kind = "Number" -> FormatFixed(l.precision, l.mant, l.scale)
      [] l.kind = "NULL" -> <<"n", "u", "l", "l">>

(* ------------------------------- tokens -------------------------------- *)

Token_new(token_type, lexeme, literal, ln) ==
    [token_type |-> token_type, lexeme |-> lexeme, literal |-> literal, line |-> ln]

\* impl Display for Token: "{:?} {} {}"
Token_to_string(t) == <<t.token_type, t.lexeme, Literal_to_string(t.literal)>>

(* ------------------------------ Scanner -------------------------------- *)

\* Scanner::new
Scanner_new(src) ==
    [source |-> src, tokens |-> <<>>, start |-> 0, current |-> 0, line |-> 1,
     has_errors |-> FALSE, stderr |-> <<>>, panicked |-> FALSE]

is_at_end(s) == s.current >= Len(s.source)

peek(s) == IF is_at_end(s) THEN NUL ELSE s.source[s.current + 1]

peek_next(s) ==
    IF s.current + 1 >= Len(s.source) THEN NUL ELSE s.source[s.current + 2]

\* advance: the state after it; the character it returns is peek of the state before.
advance(s) == [s EXCEPT !.current = @ + 1]

\* match_next: whether it returns true, and the state after it.
match_next_result(s, char_expected) == ~is_at_end(s) /\ peek(s) = char_expected

match_next(s, char_expected) ==
    IF match_next_result(s, char_expected) THEN [s EXCEPT !.current = @ + 1] ELSE s

\* Option::unwrap on None
panic(s) == [s EXCEPT !.panicked = TRUE]

\* get_lexeme with the slice starting one byte late.
get_lexeme_late_start(s) == str_get(s.source, s.start + 1, s.current)

get_lexeme(s) == str_get(s.source, s.start, s.current)

add_token(s, token_type, literal) ==
    LET lexeme == get_lexeme(s)
    IN IF ~lexeme.some THEN panic(s)
       ELSE [s EXCEPT !.tokens = Append(@, Token_new(token_type, lexeme.chars, literal, s.line))]

\* fmt_error that prints the diagnostic and leaves has_errors alone.
fmt_error_flag_not_set(s, msg) ==
    [s EXCEPT !.stderr = Append(@, [line |-> s.line, msg |-> msg])]

fmt_error(s, msg) ==
    [s EXCEPT !.stderr = Append(@, [line |-> s.line, msg |-> msg]),
              !.has_errors = TRUE]

RECURSIVE string_loop(_)
\* handle_string, the while loop: up to the closing quote or the end.
string_loop(s) ==
    IF peek(s) # "\"" /\ ~is_at_end(s)
    THEN string_loop(advance(IF peek(s) = "\n" THEN [s EXCEPT !.line = @ + 1] ELSE s))
    ELSE s

\* handle_string that puts the line counter back to the line of the opening
\* quote once the token is pushed.
handle_string_restores_line(s) ==
    LET s1 == string_loop(s)
    IN IF is_at_end(s1) THEN fmt_error(s1, <<"Unterminated string.">>)
       ELSE LET s2 == advance(s1)
                literal == str_get(s2.source, s2.start + 1, s2.current - 1)
            IN IF ~literal.some THEN panic(s2)
               ELSE [add_token(s2, "STRING", Literal_String(literal.chars))
                        EXCEPT !.line = s.line]

\* handle_string without the return after "Unterminated string.": the error
\* is reported and a STRING token is pushed all the same.
handle_string_no_return(s) ==
    LET s1 == string_loop(s)
        s2 == IF is_at_end(s1) THEN fmt_error(s1, <<"Unterminated string.">>)
              ELSE advance(s1)
    IN add_token(s2, "STRING", Literal_String(<<>>))

handle_string(s) ==
    LET s1 == string_loop(s)
    IN IF is_at_end(s1) THEN fmt_error(s1, <<"Unterminated string.">>)
       ELSE LET s2 == advance(s1)
                literal == str_get(s2.source, s2.start + 1, s2.current - 1)
            IN IF ~literal.some THEN panic(s2)
               ELSE add_token(s2, "STRING", Literal_String(literal.chars))

RECURSIVE identifier_loop(_)
identifier_loop(s) ==
    IF is_alpha_numeric(peek(s)) THEN identifier_loop(advance(s)) ELSE s

\* The match of handle_identifier: the 16 reserved words.
keyword_type(identifier) ==
    CASE identifier = <<"a", "n", "d">> -> "AND"
      [] identifier = <<"c", "l", "a", "s", "s">> -> "CLASS"
      [] identifier = <<"e", "l", "s", "e">> -> "ELSE"
      [] identifier = <<"f", "a", "l", "s", "e">> -> "FALSE"
      [] identifier = <<"f", "u", "n">> -> "FUN"
      [] identifier = <<"f", "o", "r">> -> "FOR"
      [] identifier = <<"i", "f">> -> "IF"
      [] identifier = <<"n", "i", "l">> -> "NIL"
      [] identifier = <<"o", "r">> -> "OR"
      [] identifier = <<"p", "r", "i", "n", "t">> -> "PRINT"
      [] identifier = <<"r", "e", "t", "u", "r", "n">> -> "RETURN"
      [] identifier = <<"s", "u", "p", "e", "r">> -> "SUPER"
      [] identifier = <<"t", "h", "i", "s">> -> "THIS"
      [] identifier = <<"t", "r", "u", "e">> -> "TRUE"
      [] identifier = <<"v", "a", "r">> -> "VAR"
      [] identifier = <<"w", "h", "i", "l", "e">> -> "WHILE"
      [] OTHER -> "IDENTIFIER"

handle_identifier(s) ==
    LET s1 == identifier_loop(s)
        identifier == get_lexeme(s1)
    IN IF ~identifier.some THEN panic(s1)
       ELSE add_token(s1, keyword_type(identifier.chars), Literal_NULL)

RECURSIVE digit_loop(_)
\* handle_number, the first while loop: the digits before the dot.
digit_loop(s) == IF is_digit(peek(s)) THEN digit_loop(advance(s)) ELSE s

RECURSIVE decimal_loop_last_digit(_)
\* The second while loop with only_zero_decimals assigned from the digit at
\* hand alone (= instead of a flag that is only ever cleared).
decimal_loop_last_digit(d) ==
    IF is_digit(peek(d.s))
    THEN decimal_loop_last_digit([s |-> advance(d.s),
                                  precision |-> d.precision + 1,
                                  only_zero_decimals |-> peek(d.s) = "0"])
    ELSE d

RECURSIVE decimal_loop(_)
\* handle_number, the second while loop, on [s, precision, only_zero_decimals].
decimal_loop(d) ==
    IF is_digit(peek(d.s))
    THEN decimal_loop([s |-> advance(d.s),
                       precision |-> d.precision + 1,
                       only_zero_decimals |-> d.only_zero_decimals /\ peek(d.s) = "0"])
    ELSE d

\* handle_number without the final `if precision == 0 { precision += 1 }`.
handle_number_precision_zero(s) ==
    LET s1 == digit_loop(s)
        d == IF peek(s1) = "." /\ is_digit(peek_next(s1))
             THEN LET e == decimal_loop([s |-> advance(s1), precision |-> 0,
                                         only_zero_decimals |-> TRUE])
                  IN [e EXCEPT !.precision = IF e.only_zero_decimals THEN 1 ELSE @]
             ELSE [s |-> s1, precision |-> 0, only_zero_decimals |-> TRUE]
        source_num == get_lexeme(d.s)
    IN IF ~source_num.some THEN panic(d.s)
       ELSE LET parsed_num == parse_f32(source_num.chars)
            IN IF parsed_num.is_err
               THEN fmt_error(d.s, <<"Parsing error on token: ", source_num.chars>>)
               ELSE add_token(d.s, "NUMBER", Literal_Number(parsed_num, d.precision))

handle_number(s) ==
    LET s1 == digit_loop(s)
        d == IF peek(s1) = "." /\ is_digit(peek_next(s1))
             THEN LET e == decimal_loop([s |-> advance(s1), precision |-> 0,
                                         only_zero_decimals |-> TRUE])
                  IN [e EXCEPT !.precision = IF e.only_zero_decimals THEN 1 ELSE @]
             ELSE [s |-> s1, precision |-> 0, only_zero_decimals |-> TRUE]
        source_num == get_lexeme(d.s)
    IN IF ~source_num.some THEN panic(d.s)
       ELSE LET parsed_num == parse_f32(source_num.chars)
            IN IF parsed_num.is_err
               THEN fmt_error(d.s, <<"Parsing error on token: ", source_num.chars>>)
               ELSE add_token(d.s, "NUMBER",
                              Literal_Number(parsed_num,
                                  IF d.precision = 0 THEN 1 ELSE d.precision))

RECURSIVE line_comment_loop(_)
line_comment_loop(s) ==
    IF peek(s) # "\n" /\ ~is_at_end(s) THEN line_comment_loop(advance(s)) ELSE s

RECURSIVE block_comment_loop(_)
block_comment_loop(s) ==
    IF ~(peek(s) = "*" /\ peek_next(s) = "/") /\ ~is_at_end(s)
    THEN block_comment_loop(advance(IF peek(s) = "\n" THEN [s EXCEPT !.line = @ + 1] ELSE s))
    ELSE s

\* scan_token, the '//' branch.
line_comment(s) ==
    LET s1 == line_comment_loop(s)
        comment == str_get(s1.source, s1.start + 2, s1.current)
    IN IF ~comment.some THEN panic(s1)
       ELSE add_token(s1, "COMMENT", Literal_String(comment.chars))

\* scan_token, the '/*' branch: current += 2 whether or not a '*/' was found.
block_comment(s) ==
    LET s1 == block_comment_loop(s)
        s2 == [s1 EXCEPT !.current = @ + 2]
        comment == str_get(s2.source, s2.start + 2, s2.current - 2)
    IN IF ~comment.some THEN panic(s2)
       ELSE add_token(s2, "COMMENT_BLOCK", Literal_String(comment.chars))

\* scan_token, the '/' arm.
slash(s) ==
    IF match_next_result(s, "/") THEN line_comment(match_next(s, "/"))
    ELSE IF match_next_result(s, "*") THEN block_comment(match_next(s, "*"))
    ELSE add_token(s, "SLASH", Literal_NULL)

\* scan_token, the arms of '!', '=', '>' and '<'.
one_or_two(s, two, one) ==
    LET t_type == IF match_next_result(s, "=") THEN two ELSE one
    IN add_token(match_next(s, "="), t_type, Literal_NULL)

\* scan_token reading its character with peek instead of advance: the
\* whitespace and newline arms consume nothing.
scan_token_peek_only(s0) ==
    LET c == peek(s0)
    IN CASE c = "\n" -> [s0 EXCEPT !.line = @ + 1]
         [] c \in {" ", "\r", "\t"} -> s0
         [] OTHER -> add_token(advance(s0), "PLUS", Literal_NULL)

scan_token(s0) ==
    LET c == peek(s0)
        s == advance(s0)
    IN CASE c = "(" -> add_token(s, "LEFT_PAREN", Literal_NULL)
         [] c = ")" -> add_token(s, "RIGHT_PAREN", Literal_NULL)
         [] c = "{" -> add_token(s, "LEFT_BRACE", Literal_NULL)
         [] c = "}" -> add_token(s, "RIGHT_BRACE", Literal_NULL)
         [] c = "," -> add_token(s, "COMMA", Literal_NULL)
         [] c = "." -> add_token(s, "DOT", Literal_NULL)
         [] c = "-" -> add_token(s, "MINUS", Literal_NULL)
         [] c = "+" -> add_token(s, "PLUS", Literal_NULL)
         [] c = ";" -> add_token(s, "SEMICOLON", Literal_NULL)
         [] c = "*" -> add_token(s, "STAR", Literal_NULL)
         [] c = "!" -> one_or_two(s, "BANG_EQUAL", "BANG")
         [] c = "=" -> one_or_two(s, "EQUAL_EQUAL", "EQUAL")
         [] c = ">" -> one_or_two(s, "GREATER_EQUAL", "GREATER")
         [] c = "<" -> one_or_two(s, "LESS_EQUAL", "LESS")
         [] c = "/" -> slash(s)
         [] c = "\"" -> handle_string(s)
         [] c = "\n" -> [s EXCEPT !.line = @ + 1]
         [] c \in {" ", "\r", "\t"} -> s
         [] OTHER -> IF is_digit(c) THEN handle_number(s)
                     ELSE IF is_alpha_numeric(c) THEN handle_identifier(s)
                     ELSE fmt_error(s, <<"Unexpected character: ", c>>)

\* scan_tokens, the token pushed after the loop.
EOF_token(ln) == Token_new("EOF", <<>>, Literal_NULL, ln)

RECURSIVE scan_loop(_)
\* scan_tokens, the while loop run to its end (or to a panic).
scan_loop(s) ==
    IF s.panicked \/ is_at_end(s) THEN s
    ELSE scan_loop(scan_token([s EXCEPT !.start = s.current]))

RECURSIVE run_iterations(_, _)
\* scan_tokens, at most n iterations of the while loop from s.
run_iterations(s, n) ==
    IF n = 0 \/ s.panicked \/ is_at_end(s) THEN s
    ELSE run_iterations(scan_token([s EXCEPT !.start = s.current]), n - 1)

\* scan_tokens up to print_tokens, as a function of the source.
scan_tokens(src) ==
    LET s == scan_loop(Scanner_new(src))
    IN IF s.panicked THEN s
       ELSE [s EXCEPT !.tokens = Append(@, EOF_token(s.line))]

(* ----------------------- expressions and statements --------------------- *)

\* No tree is built yet (and none ever is in the scanner's specifications).
NoNode == [enum |-> "None", variant |-> "None"]

\* enum Expr, the four variants the printer renders.
LiteralExpr(value) == [enum |-> "Expr", variant |-> "LiteralExpr", value |-> value]

Binary(left, operator, right) ==
    [enum |-> "Expr", variant |-> "Binary",
     left |-> left, operator |-> operator, right |-> right]

Grouping(expression) ==
    [enum |-> "Expr", variant |-> "Grouping", expression |-> expression]

Unary(operator, right) ==
    [enum |-> "Expr", variant |-> "Unary", operator |-> operator, right |-> right]

\* enum Expr, one node of each other variant, over the expression e and the
\* token t.
OtherExprs(e, t) ==
    {[enum |-> "Expr", variant |-> "Assign", name |-> t, value |-> e],
     [enum |-> "Expr", variant |-> "Call", callee |-> e, paren |-> t, arguments |-> <<e>>],
     [enum |-> "Expr", variant |-> "Get", object |-> e, name |-> t],
     [enum |-> "Expr", variant |-> "Logical", left |-> e, right |-> e, operator |-> t],
     [enum |-> "Expr", variant |-> "Set", object |-> e, name |-> t, value |-> e],
     [enum |-> "Expr", variant |-> "Super", keyword |-> t, method |-> t],
     [enum |-> "Expr", variant |-> "This", keyword |-> t],
     [enum |-> "Expr", variant |-> "Variable", name |-> t]}

\* enum Stmt, one node of each variant, over the expression e and the token t.
Stmts(e, t) ==
    LET print == [enum |-> "Stmt", variant |-> "Print", expression |-> e]
    IN {print,
        [enum |-> "Stmt", variant |-> "Block", statements |-> <<print>>],
        [enum |-> "Stmt", variant |-> "Expression", expression |-> e],
        [enum |-> "Stmt", variant |-> "While", condition |-> e, body |-> print],
        [enum |-> "Stmt", variant |-> "Return", keyword |-> t, value |-> e],
        [enum |-> "Stmt", variant |-> "Variable", name |-> t, initializer |-> e],
        [enum |-> "Stmt", variant |-> "If", condition |-> e,
         then_branch |-> print, else_branch |-> print],
        [enum |-> "Stmt", variant |-> "Function", name |-> t, params |-> <<t>>,
         body |-> <<print>>],
        [enum |-> "Stmt", variant |-> "Class", name |-> t, super_class |-> e,
         methods |-> <<>>]}

\* Expr::accept, the match: the visitor method each arm calls.
Expr_method_get_set_swapped(self) ==
    CASE self.variant = "Binary" -> "visit_binary_expression"
      [] self.variant = "LiteralExpr" -> "visit_literal_expression"
      [] self.variant = "Assign" -> "visit_assign_expression"
      [] self.variant = "Call" -> "visit_call_expression"
      [] self.variant = "Get" -> "visit_set_expression"
      [] self.variant = "Grouping" -> "visit_grouping_expression"
      [] self.variant = "Logical" -> "visit_logical_expression"
      [] self.variant = "Set" -> "visit_get_expression"
      [] self.variant = "Super" -> "visit_super_expression"
      [] self.variant = "This" -> "visit_this_expression"
      [] self.variant = "Unary" -> "visit_unary_expression"
      [] self.variant = "Variable" -> "visit_variable_expression"

Expr_method(self) ==
    CASE self.variant = "Binary" -> "visit_binary_expression"
      [] self.variant = "LiteralExpr" -> "visit_literal_expression"
      [] self.variant = "Assign" -> "visit_assign_expression"
      [] self.variant = "Call" -> "visit_call_expression"
      [] self.variant = "Get" -> "visit_get_expression"
      [] self.variant = "Grouping" -> "visit_grouping_expression"
      [] self.variant = "Logical" -> "visit_logical_expression"
      [] self.variant = "Set" -> "visit_set_expression"
      [] self.variant = "Super" -> "visit_super_expression"
      [] self.variant = "This" -> "visit_this_expression"
      [] self.variant = "Unary" -> "visit_unary_expression"
      [] self.variant = "Variable" -> "visit_variable_expression"

RECURSIVE Visitor_call(_, _, _)

\* Expr::accept: the visitor is named, and Visitor_call is the call of one of
\* its methods.
Expr_accept(self, expr_visitor) == Visitor_call(expr_visitor, Expr_method(self), self)

\* Stmt::accept, the match: the visitor method each arm calls.
Stmt_method(self) ==
    CASE self.variant = "Print" -> "visit_print_stmt"
      [] self.variant = "Block" -> "visit_block_stmt"
      [] self.variant = "Expression" -> "visit_expression_stmt"
      [] self.variant = "While" -> "visit_while_stmt"
      [] self.variant = "Return" -> "visit_return_stmt"
      [] self.variant = "Variable" -> "visit_variable_stmt"
      [] self.variant = "If" -> "visit_if_stmt"
      [] self.variant = "Function" -> "visit_function_stmt"
      [] self.variant = "Class" -> "visit_class_stmt"

\* Stmt::accept
Stmt_accept(self, visitor) == Visitor_call(visitor, Stmt_method(self), self)

\* A visitor (impl Visitor<R>, impl StmtVisitor<R>) whose every method returns
\* its own name and the argument it was given.
Recorder(method, arg) == [method |-> method, arg |-> arg]

(* ------------------------------ AstPrinter ------------------------------ *)

\* panic!(msg) inside a visit: the rendering is abandoned.
AstPanic(msg) == <<"panic", msg>>

IsAstPanic(text) == Len(text) = 2 /\ text[1] = "panic"

RECURSIVE AstPrinter(_, _)

RECURSIVE for_each_argument(_, _)
\* parenthesize, the for_each over arguments: a space, then the argument's
\* rendering.
for_each_argument(builder, arguments) ==
    IF arguments = <<>> THEN builder
    ELSE LET text == Expr_accept(Head(arguments), "AstPrinter")
         IN IF IsAstPanic(text) THEN text
            ELSE for_each_argument(builder \o <<" ">> \o text, Tail(arguments))

\* AstPrinter::parenthesize
parenthesize(name, arguments) ==
    LET builder == for_each_argument(<<"(">> \o name, arguments)
    IN IF IsAstPanic(builder) THEN builder ELSE builder \o <<")">>

\* visit_binary_expression with vec![right, left].
visit_binary_expression_swapped(expr) ==
    IF expr.variant = "Binary"
    THEN parenthesize(expr.operator.lexeme, <<expr.right, expr.left>>)
    ELSE AstPanic("Fudeu")

visit_binary_expression(expr) ==
    IF expr.variant = "Binary"
    THEN parenthesize(expr.operator.lexeme, <<expr.left, expr.right>>)
    ELSE AstPanic("Fudeu")

visit_literal_expression(expr) ==
    IF expr.variant = "LiteralExpr"
    THEN Literal_to_string(expr.value)
    ELSE AstPanic("Fudeu 2")

visit_assign_expression(expr) == <<>>

visit_call_expression(expr) == <<>>

visit_get_expression(expr) == <<>>

visit_grouping_expression(expr) ==
    IF expr.variant = "Grouping"
    THEN parenthesize(<<"g", "r", "o", "u", "p">>, <<expr.expression>>)
    ELSE AstPanic("Wrong type")

visit_logical_expression(expr) == <<>>

visit_set_expression(expr) == <<>>

visit_super_expression(expr) == <<>>

visit_this_expression(expr) == <<>>

visit_unary_expression(expr) ==
    IF expr.variant = "Unary"
    THEN parenthesize(expr.operator.lexeme, <<expr.right>>)
    ELSE AstPanic("Wrong...")

visit_variable_expression(expr) == <<>>

\* impl Visitor<String> for AstPrinter: the method of the given name.
AstPrinter(method, expr) ==
    CASE method = "visit_binary_expression" -> visit_binary_expression(expr)
      [] method = "visit_literal_expression" -> visit_literal_expression(expr)
      [] method = "visit_assign_expression" -> visit_assign_expression(expr)
      [] method = "visit_call_expression" -> visit_call_expression(expr)
      [] method = "visit_get_expression" -> visit_get_expression(expr)
      [] method = "visit_grouping_expression" -> visit_grouping_expression(expr)
      [] method = "visit_logical_expression" -> visit_logical_expression(expr)
      [] method = "visit_set_expression" -> visit_set_expression(expr)
      [] method = "visit_super_expression" -> visit_super_expression(expr)
      [] method = "visit_this_expression" -> visit_this_expression(expr)
      [] method = "visit_unary_expression" -> visit_unary_expression(expr)
      [] method = "visit_variable_expression" -> visit_variable_expression(expr)

\* A call of a method of a visitor (&impl Visitor<R>, &impl StmtVisitor<R>):
\* the method of that name of the visitor's own implementation.
Visitor_call(visitor, method, arg) ==
    CASE visitor = "AstPrinter" -> AstPrinter(method, arg)
      [] visitor = "Recorder" -> Recorder(method, arg)

\* AstPrinter::print: the text it hands to println!.
AstPrinter_print(expr) == Expr_accept(expr, "AstPrinter")

(* --------------------------- the state machine -------------------------- *)

\* The Scanner struct as a record.
Scanner ==
    [source |-> source, tokens |-> tokens, start |-> start, current |-> current,
     line |-> line, has_errors |-> has_errors, stderr |-> stderr, panicked |-> FALSE]

\* Source characters of Spec.
Alphabet == {"+", "/", "*", "\"", "\n", "!", "=", "a", "@", EAcute}

\* Source characters of SpecLex: no invalid character and no quote.
LexAlphabet == {"=", "/", "*", ".", "1", "a", " ", "\t", "\r", "\n"}

\* Source characters of SpecWord: digits, a dot, letters of reserved words.
WordAlphabet == {"0", "1", ".", "o", "r", " ", EAcute}

\* Source characters of SpecComment.
CommentAlphabet == {"/", "*", "\n", "\""}

\* Source characters of SpecError: what the three diagnostics are made of.
ErrorAlphabet == {"@", "\"", "1", " ", EAcute}

Sources(alphabet, n) == UNION {[1..k -> alphabet] : k \in 0..n}

InitWith(src) ==
    /\ source = src
    /\ tokens = Scanner_new(src).tokens
    /\ start = Scanner_new(src).start
    /\ current = Scanner_new(src).current
    /\ line = Scanner_new(src).line
    /\ has_errors = Scanner_new(src).has_errors
    /\ stderr = <<>>
    /\ stdout = <<>>
    /\ pc = "scan"
    /\ node = NoNode
    /\ result = <<>>

Init == \E src \in Sources(Alphabet, MaxLen) : InitWith(src)

InitLex == \E src \in Sources(LexAlphabet, MaxLexLen) : InitWith(src)

InitWord == \E src \in Sources(WordAlphabet, MaxWordLen) : InitWith(src)

InitComment == \E src \in Sources(CommentAlphabet, MaxCommentLen) : InitWith(src)

InitError == \E src \in Sources(ErrorAlphabet, MaxErrorLen) : InitWith(src)

\* One iteration of the while loop of scan_tokens.
ScanToken ==
    /\ pc = "scan"
    /\ ~is_at_end(Scanner)
    /\ LET s == scan_token([Scanner EXCEPT !.start = current])
       IN /\ tokens' = s.tokens
          /\ start' = s.start
          /\ current' = s.current
          /\ line' = s.line
          /\ has_errors' = s.has_errors
          /\ stderr' = s.stderr
          /\ pc' = IF s.panicked THEN "panicked" ELSE "scan"
    /\ UNCHANGED <<source, stdout, node, result>>

\* scan_tokens after the loop: the EOF token, then print_tokens.
PushEOF ==
    /\ pc = "scan"
    /\ is_at_end(Scanner)
    /\ tokens' = Append(tokens, EOF_token(line))
    /\ pc' = "print"
    /\ UNCHANGED <<source, start, current, line, has_errors, stderr, stdout, node, result>>

\* print_tokens: one println! of the for_each.
PrintToken ==
    /\ pc = "print"
    /\ Len(stdout) < Len(tokens)
    /\ stdout' = Append(stdout, Token_to_string(tokens[Len(stdout) + 1]))
    /\ UNCHANGED <<source, tokens, start, current, line, has_errors, stderr, pc, node, result>>

\* print_tokens after the for_each: exit(65) on errors; else scan_tokens returns.
Finish ==
    /\ pc = "print"
    /\ Len(stdout) = Len(tokens)
    /\ pc' = IF has_errors THEN "exit65" ELSE "returned"
    /\ UNCHANGED <<source, tokens, start, current, line, has_errors, stderr, stdout,
                   node, result>>

Next == ScanToken \/ PushEOF \/ PrintToken \/ Finish

Spec == Init /\ [][Next]_vars

SpecLex == InitLex /\ [][Next]_vars

SpecWord == InitWord /\ [][Next]_vars

SpecComment == InitComment /\ [][Next]_vars

SpecError == InitError /\ [][Next]_vars

(* ----------------------- trees, visitors, the printer ------------------- *)

\* Deepest nesting of the expression trees of SpecAst.
MaxDepth == 2

\* Literals of the printer's tests: a text, 123 with no decimals, 45.67.
AstLiterals ==
    {Literal_String(<<"J", "a", "w">>),
     Literal_Number([mant |-> 123, scale |-> 0], 0),
     Literal_Number([mant |-> 4567, scale |-> 2], 2)}

\* Operator tokens as the printer's tests build them.
MinusToken == Token_new("MINUS", <<"-">>, Literal_String(<<"-">>), 1)

StarToken == Token_new("STAR", <<"*">>, Literal_String(<<"*">>), 1)

RECURSIVE Exprs(_)
\* The trees of literal, unary, binary and grouping nodes nested depth deep
\* at most.
Exprs(depth) ==
    {LiteralExpr(l) : l \in AstLiterals}
      \cup (IF depth = 0 THEN {}
            ELSE LET sub == Exprs(depth - 1)
                 IN {Unary(MinusToken, r) : r \in sub}
                      \cup {Binary(l, StarToken, r) : l \in sub, r \in sub}
                      \cup {Grouping(e) : e \in sub})

\* The nodes of SpecAst.
Nodes ==
    Exprs(MaxDepth)
      \cup UNION {OtherExprs(LiteralExpr(l), MinusToken) \cup Stmts(LiteralExpr(l), MinusToken)
                    : l \in AstLiterals}

InitAst ==
    /\ \E n \in Nodes : node = n
    /\ source = <<>>
    /\ tokens = <<>>
    /\ start = 0
    /\ current = 0
    /\ line = 1
    /\ has_errors = FALSE
    /\ stderr = <<>>
    /\ stdout = <<>>
    /\ pc = "ast"
    /\ result = <<>>

\* expr.accept(&visitor) for a visitor that records its call.
AcceptExpr ==
    /\ pc = "ast"
    /\ node.enum = "Expr"
    /\ result' = Expr_accept(node, "Recorder")
    /\ pc' = "accepted"
    /\ UNCHANGED <<source, tokens, start, current, line, has_errors, stderr, stdout, node>>

\* stmt.accept(&visitor) for a visitor that records its call.
AcceptStmt ==
    /\ pc = "ast"
    /\ node.enum = "Stmt"
    /\ result' = Stmt_accept(node, "Recorder")
    /\ pc' = "accepted"
    /\ UNCHANGED <<source, tokens, start, current, line, has_errors, stderr, stdout, node>>

\* AstPrinter {}.print(&expr)
PrintExpr ==
    /\ pc = "ast"
    /\ node.enum = "Expr"
    /\ result' = AstPrinter_print(node)
    /\ pc' = "printed"
    /\ UNCHANGED <<source, tokens, start, current, line, has_errors, stderr, stdout, node>>

NextAst == AcceptExpr \/ AcceptStmt \/ PrintExpr

SpecAst == InitAst /\ [][NextAst]_vars

\* Number literals of the sources of SpecBook.
NumberTexts ==
    {<<"1", "2", "3">>, <<"4", "5", ".", "6", "7">>, <<"4", "5", ".", "0", "0", "0">>,
     <<"7">>, <<"0", ".", "5">>}

\* The source text "-a * (b)".
BookSource(a, b) == <<"-">> \o a \o <<" ", "*", " ", "(">> \o b \o <<")">>

InitBook == \E a \in NumberTexts, b \in NumberTexts : InitWith(BookSource(a, b))

\* The tree of book_example, Binary(Unary(-, a), *, Grouping(b)), over the
\* tokens of a finished scan of "-a * (b)".
BuildTree ==
    /\ pc = "returned"
    /\ [i \in 1..Len(tokens) |-> tokens[i].token_type]
          = <<"MINUS", "NUMBER", "STAR", "LEFT_PAREN", "NUMBER", "RIGHT_PAREN", "EOF">>
    /\ node' = Binary(Unary(tokens[1], LiteralExpr(tokens[2].literal)),
                      tokens[3],
                      Grouping(LiteralExpr(tokens[5].literal)))
    /\ pc' = "ast"
    /\ UNCHANGED <<source, tokens, start, current, line, has_errors, stderr, stdout, result>>

NextBook == ScanToken \/ PushEOF \/ PrintToken \/ Finish \/ BuildTree \/ PrintExpr

SpecBook == InitBook /\ [][NextBook]_vars

TypeOK ==
    /\ pc \in {"scan", "print", "returned", "exit65", "panicked", "ast", "accepted", "printed"}
    /\ start \in Nat /\ current \in Nat /\ line \in Nat
    /\ has_errors \in BOOLEAN

(* ------------------------- vocabulary of the claims --------------------- *)

Last(seq) == seq[Len(seq)]

Completed == pc \in {"print", "returned", "exit65"}

Terminated == pc \in {"returned", "exit65", "panicked"}

\* A step of the scan loop that pushed a token.
Emits == pc = "scan" /\ Len(tokens') = Len(tokens) + 1

NewlinesBefore(src, k) == Cardinality({i \in 1..k : src[i] = "\n"})

Whitespace == {" ", "\t", "\r", "\n"}

Punctuation ==
    {"(", ")", "{", "}", ",", ".", "-", "+", ";", "*", "!", "=", ">", "<", "/", "\""}

\* A character that matches no token rule.
IsInvalid(c) == c \notin Punctuation \cup Whitespace \cup Digits \cup Letters

\* The two characters at 0-based offset k are a, b.
PairAt(src, k, a, b) == k + 2 <= Len(src) /\ src[k + 1] = a /\ src[k + 2] = b

\* The scanner stands on a '/*' that no '*/' closes.
AtUnterminatedBlockComment ==
    /\ pc = "scan"
    /\ PairAt(source, current, "/", "*")
    /\ \A k \in (current + 2)..Len(source) : ~PairAt(source, k, "*", "/")

\* The quote at 0-based offset k has no closing quote.
UnterminatedQuoteAt(k) ==
    /\ k < Len(source)
    /\ source[k + 1] = "\""
    /\ \A i \in (k + 2)..Len(source) : source[i] # "\""

\* The scanner stands on a quote that is never closed.
AtUnterminatedString == pc = "scan" /\ UnterminatedQuoteAt(current)

\* The last scan_token ran handle_string from such a quote to the end.
AfterUnterminatedString ==
    pc = "scan" /\ UnterminatedQuoteAt(start) /\ current > start

RECURSIVE ConcatLexemes(_)
ConcatLexemes(ts) ==
    IF ts = <<>> THEN <<>> ELSE Head(ts).lexeme \o ConcatLexemes(Tail(ts))

StripWhitespace(src) == SelectSeq(src, LAMBDA c : c \notin Whitespace)

\* Tokens with their lines moved down by n lines.
ShiftLines(ts, n) == [i \in 1..Len(ts) |-> [ts[i] EXCEPT !.line = @ + n]]

(* -------------------------------- claims -------------------------------- *)

\* C1: every scan runs to completion (no panic), and once the loop is over the
\* token sequence holds exactly one EOF token, which is its last element.
C1_ScanCompletesWithOneEOF ==
    /\ pc # "panicked"
    /\ Completed =>
         /\ tokens # <<>>
         /\ Last(tokens).token_type = "EOF"
         /\ Cardinality({i \in 1..Len(tokens) : tokens[i].token_type = "EOF"}) = 1

\* C2: in every scanner state start <= current <= length(source), counted in
\* characters (the block-comment branch included), and no step decreases
\* current.
C2_CursorBounds ==
    /\ [](start <= current /\ current <= Len(source))
    /\ [][current' >= current]_vars

\* C3: every pushed token carries the line the scanner was on when the scan of
\* that token began, which is 1 + the number of newlines before its start.
C3_TokenLineIsStartLine ==
    [][Emits => /\ Last(tokens').line = line
                /\ Last(tokens').line = 1 + NewlinesBefore(source, current)]_vars

\* C4: a scan step that leaves the cursor inside the source never fails to
\* extract a lexeme, and the lexeme of the token it pushes is exactly the
\* characters between the start cursor and the current cursor.
C4_LexemeIsCharsBetweenCursors ==
    [][(pc = "scan" /\ ~is_at_end(Scanner) /\ current' <= Len(source)) =>
          /\ pc' # "panicked"
          /\ Emits => Last(tokens').lexeme = SubSeq(source, start' + 1, current')]_vars

\* C5: the scan step of a block comment that is never closed writes no
\* diagnostic, leaves the error flag alone and lets the scan go on to its
\* EOF token.
C5_UnterminatedBlockCommentAccepted ==
    [][AtUnterminatedBlockComment =>
          /\ pc' = "scan"
          /\ stderr' = stderr
          /\ has_errors' = has_errors]_vars

RECURSIVE scan_until(_, _)
\* The scan loop run from s until the cursor reaches offset k (or a panic).
scan_until(s, k) ==
    IF s.panicked \/ s.current >= k THEN s
    ELSE scan_until(scan_token([s EXCEPT !.start = s.current]), k)

\* C6: when the scan loop starts a token on a character that matches no token
\* rule, and the rest of the source scans to the tokens R on its own, the scan
\* ends with exit code 65 (the error flag set) and with exactly the tokens it
\* had before the character, followed by R (EOF included, lines counted from
\* the line of the character): no token for the character itself.
C6_InvalidCharSkipped ==
    Terminated =>
        \A k \in 0..(Len(source) - 1) :
            LET before == scan_until(Scanner_new(source), k)
                rest == scan_tokens(SubSeq(source, k + 2, Len(source)))
            IN (/\ ~before.panicked
                /\ before.current = k
                /\ IsInvalid(source[k + 1])
                /\ ~rest.panicked) =>
                   /\ pc = "exit65"
                   /\ has_errors
                   /\ tokens = before.tokens \o ShiftLines(rest.tokens, before.line - 1)

\* C7: the scan step of a string that is never closed pushes no token and sets
\* the error flag, and the next step of the scan appends the EOF token.
C7_UnterminatedString ==
    [][/\ AtUnterminatedString =>
            /\ tokens' = tokens
            /\ has_errors'
            /\ pc' = "scan"
       /\ AfterUnterminatedString =>
            /\ tokens' = Append(tokens, EOF_token(line))
            /\ has_errors'
            /\ pc' = "print"]_vars

\* C7, its case: a scan that had pushed a token, then met a string that is
\* never closed, and has appended its EOF token.
C7_Witness ==
    /\ pc = "print"
    /\ UnterminatedQuoteAt(start)
    /\ current > start + 1
    /\ has_errors
    /\ Len(tokens) >= 2
    /\ Last(tokens).token_type = "EOF"
    /\ \A i \in 1..Len(tokens) : tokens[i].token_type # "STRING"

OneCharType(c) ==
    CASE c = "!" -> "BANG" [] c = "=" -> "EQUAL" [] c = "<" -> "LESS" [] c = ">" -> "GREATER"

TwoCharType(c) ==
    CASE c = "!" -> "BANG_EQUAL" [] c = "=" -> "EQUAL_EQUAL"
      [] c = "<" -> "LESS_EQUAL" [] c = ">" -> "GREATER_EQUAL"

\* C8: the scan step of '!', '=', '<' or '>' pushes one token: the
\* two-character token with a two-character lexeme when the next character is
\* '=', and the one-character token otherwise (end of input included).
C8_TwoCharOperators ==
    [][(pc = "scan" /\ peek(Scanner) \in {"!", "=", "<", ">"}) =>
          LET c == peek(Scanner)
              two == peek_next(Scanner) = "="
          IN /\ pc' = "scan"
             /\ current' = current + (IF two THEN 2 ELSE 1)
             /\ tokens' = Append(tokens,
                    Token_new(IF two THEN TwoCharType(c) ELSE OneCharType(c),
                              IF two THEN <<c, "=">> ELSE <<c>>,
                              Literal_NULL, line))]_vars

NoInvalidChars(src) == \A i \in 1..Len(src) : ~IsInvalid(src[i])

NoQuotes(src) == \A i \in 1..Len(src) : src[i] # "\""

NoComments(src) ==
    \A k \in 0..Len(src) : ~PairAt(src, k, "/", "/") /\ ~PairAt(src, k, "/", "*")

\* C9: for a source with no invalid character, no quote and no comment, the
\* scan does not fail, and once the loop is over the lexemes of the tokens,
\* concatenated in order, are the source without its whitespace characters.
C9_LexemesReconstructSource ==
    (NoInvalidChars(source) /\ NoQuotes(source) /\ NoComments(source)) =>
        /\ pc # "panicked"
        /\ Completed => ConcatLexemes(tokens) = StripWhitespace(source)

\* C9, its case: a finished scan of such a source that holds whitespace and
\* yields three tokens or more, one of them of two characters or more.
C9_Witness ==
    /\ pc = "returned"
    /\ NoInvalidChars(source) /\ NoQuotes(source) /\ NoComments(source)
    /\ \E i \in 1..Len(source) : source[i] \in Whitespace
    /\ \E i \in 1..Len(tokens) : tokens[i].token_type \in {"EQUAL_EQUAL", "NUMBER"}
    /\ \E i \in 1..Len(tokens) : Len(tokens[i].lexeme) >= 2
    /\ Len(tokens) >= 3

\* C10: a scan ends with exit code 65 when it recorded an error and by
\* returning its tokens when it recorded none; and it exits with 65 only at the
\* end of the input, after every token (EOF included) was printed.
C10_Exit65IffErrors ==
    /\ Terminated => pc = (IF has_errors THEN "exit65" ELSE "returned")
    /\ pc = "exit65" =>
         /\ is_at_end(Scanner)
         /\ Last(tokens).token_type = "EOF"
         /\ Len(stdout) = Len(tokens)

\* The characters a scan step consumed: from the cursor before to the cursor after.
Consumed == SubSeq(source, current + 1, current')

\* The digits after the dot of a number text (none when it has no dot).
Decimals(text) ==
    IF DotCount(text) = 0 THEN <<>>
    ELSE SubSeq(text, 1 + (CHOOSE i \in 1..Len(text) : text[i] = "."), Len(text))

\* C11: the precision of a NUMBER token is 1 when the number scanned has no
\* decimal point, 1 when every digit after the point is '0', and the number
\* of digits after the point otherwise.
C11_NumberPrecision ==
    [][(Emits /\ Last(tokens').token_type = "NUMBER") =>
          Last(tokens').literal.precision =
              (IF \A i \in 1..Len(Decimals(Consumed)) : Decimals(Consumed)[i] = "0"
               THEN 1 ELSE Len(Decimals(Consumed)))]_vars

\* C11, its case: a finished scan with a NUMBER token that has two decimals
\* or more, all of them zero, and precision 1.
C11_Witness ==
    /\ pc = "returned"
    /\ \E i \in 1..Len(tokens) :
          /\ tokens[i].token_type = "NUMBER"
          /\ Len(Decimals(tokens[i].lexeme)) >= 2
          /\ tokens[i].literal.precision = 1

\* C15: along the token sequence, EOF included, the line fields never decrease.
C15_LinesNonDecreasing ==
    \A i \in 1..(Len(tokens) - 1) : tokens[i].line <= tokens[i + 1].line

\* C15, its case: a finished scan whose tokens lie on different lines, a
\* string among them.
C15_Witness ==
    /\ Completed
    /\ Len(tokens) >= 3
    /\ tokens[1].line < Last(tokens).line
    /\ \E i \in 1..Len(tokens) : tokens[i].token_type = "STRING"

\* The 0-based offset of the first '*/' at or after offset k.
FirstTerminator(k) ==
    CHOOSE j \in k..Len(source) :
        /\ PairAt(source, j, "*", "/")
        /\ \A i \in k..(j - 1) : ~PairAt(source, i, "*", "/")

\* The scanner stands on a '/*' that a later '*/' closes.
AtTerminatedBlockComment ==
    /\ pc = "scan"
    /\ PairAt(source, current, "/", "*")
    /\ \E k \in (current + 2)..Len(source) : PairAt(source, k, "*", "/")

\* The last scan_token scanned a block comment (and did not fail).
AfterBlockComment ==
    pc = "scan" /\ PairAt(source, start, "/", "*") /\ current > start

\* C16: the scan step of a closed block comment ends right after the first
\* '*/' that follows the '/*' and adds to the line counter the number of
\* newlines inside the comment; and a token pushed by the step right after
\* the comment carries that line: the line at the comment's start plus the
\* newlines inside the comment.
C16_BlockComment ==
    [][/\ AtTerminatedBlockComment =>
            LET k == FirstTerminator(current + 2)
            IN /\ current' = k + 2
               /\ line' = line + NewlinesBefore(source, k) - NewlinesBefore(source, current)
       /\ (AfterBlockComment /\ Emits) => Last(tokens').line = line]_vars

\* The 0-based offset of the first newline at or after offset k (the length
\* of the source when there is none).
EndOfLine(k) ==
    IF \E j \in (k + 1)..Len(source) : source[j] = "\n"
    THEN (CHOOSE j \in (k + 1)..Len(source) :
             source[j] = "\n" /\ \A i \in (k + 1)..(j - 1) : source[i] # "\n") - 1
    ELSE Len(source)

\* C17: when the scan loop starts a token on '//', and the source from the
\* next newline on scans to the tokens R on its own, the scan ends with the
\* tokens it had, one COMMENT token whose lexeme runs up to the newline
\* (excluded) and whose literal is the text after '//', and then R, with the
\* lines of R counted from the line of the comment.
C17_LineComment ==
    Terminated =>
        \A k \in 0..(Len(source) - 2) :
            LET before == scan_until(Scanner_new(source), k)
                e == EndOfLine(k)
                rest == scan_tokens(SubSeq(source, e + 1, Len(source)))
            IN (/\ ~before.panicked
                /\ before.current = k
                /\ PairAt(source, k, "/", "/")
                /\ ~rest.panicked) =>
                   /\ pc # "panicked"
                   /\ tokens = before.tokens
                        \o <<Token_new("COMMENT", SubSeq(source, k + 1, e),
                                       Literal_String(SubSeq(source, k + 3, e)),
                                       before.line)>>
                        \o ShiftLines(rest.tokens, before.line - 1)

RECURSIVE RunEnd(_, _)
\* The 0-based offset at which the run of characters of the set cs that
\* starts at offset k ends.
RunEnd(k, cs) ==
    IF k < Len(source) /\ source[k + 1] \in cs THEN RunEnd(k + 1, cs) ELSE k

\* C18: the scan step of a digit run followed by a '.' and no digit (or the
\* end) pushes a NUMBER token for the digit run alone and stops before the
\* dot; and the scan step of a '.' pushes a DOT token for the dot alone.
C18_DotNotConsumed ==
    [][/\ (pc = "scan" /\ is_digit(peek(Scanner))) =>
            LET e == RunEnd(current, Digits)
            IN (/\ e < Len(source)
                /\ source[e + 1] = "."
                /\ (e + 1 < Len(source) => ~is_digit(source[e + 2]))) =>
                   /\ pc' = "scan"
                   /\ current' = e
                   /\ Emits
                   /\ Last(tokens').token_type = "NUMBER"
                   /\ Last(tokens').lexeme = SubSeq(source, current + 1, e)
       /\ (pc = "scan" /\ peek(Scanner) = ".") =>
            /\ pc' = "scan"
            /\ current' = current + 1
            /\ tokens' = Append(tokens, Token_new("DOT", <<".">>, Literal_NULL, line))]_vars

\* The 16 reserved words.
ReservedWords ==
    {<<"a", "n", "d">>, <<"c", "l", "a", "s", "s">>, <<"e", "l", "s", "e">>,
     <<"f", "a", "l", "s", "e">>, <<"f", "u", "n">>, <<"f", "o", "r">>, <<"i", "f">>,
     <<"n", "i", "l">>, <<"o", "r">>, <<"p", "r", "i", "n", "t">>,
     <<"r", "e", "t", "u", "r", "n">>, <<"s", "u", "p", "e", "r">>,
     <<"t", "h", "i", "s">>, <<"t", "r", "u", "e">>, <<"v", "a", "r">>,
     <<"w", "h", "i", "l", "e">>}

\* C19: the scan step of a letter or underscore pushes one token whose lexeme
\* is the maximal run of letters, digits and underscores from there, and the
\* token is an IDENTIFIER unless the whole run is a reserved word.
C19_MaximalIdentifier ==
    [][(pc = "scan" /\ is_alpha(peek(Scanner))) =>
          LET e == RunEnd(current, Digits \cup Letters)
          IN /\ pc' = "scan"
             /\ current' = e
             /\ Emits
             /\ Last(tokens').lexeme = SubSeq(source, current + 1, e)
             /\ (Last(tokens').token_type = "IDENTIFIER")
                  <=> (SubSeq(source, current + 1, e) \notin ReservedWords)]_vars

\* C20: every iteration of the scan loop moves current forward by at least
\* one character, and from the start of a scan the loop is over (or has
\* failed) within length(source) iterations.
C20_LoopProgress ==
    /\ [][(pc = "scan" /\ ~is_at_end(Scanner)) => current' >= current + 1]_vars
    /\ [](LET end == run_iterations(Scanner_new(source), Len(source))
          IN end.panicked \/ is_at_end(end))

\* C20, its case: a finished scan of several iterations, one of which
\* consumed more than one character.
C20_Witness ==
    /\ Completed
    /\ Len(source) >= 3
    /\ current = Len(source)
    /\ Len(tokens) >= 3
    /\ \E i \in 1..Len(tokens) : Len(tokens[i].lexeme) >= 2

\* The source text "-123 * (45.67)".
BookExample == BookSource(<<"1", "2", "3">>, <<"4", "5", ".", "6", "7">>)

\* C12: when the tree Binary(Unary(-, 123), *, Grouping(45.67)) built from
\* the scan of "-123 * (45.67)" has been printed, the text is
\* "(* (- 123) (group 45.67))".
C12_BookRoundTrip ==
    (pc = "printed" /\ source = BookExample) =>
        result = <<"(", "*", " ", "(", "-", " ", "1", "2", "3", ")", " ",
                   "(", "g", "r", "o", "u", "p", " ", "4", "5", ".", "6", "7", ")", ")">>

\* C12, amended: when the tree Binary(Unary(-, 123), *, Grouping(45.67))
\* built from the scan of "-123 * (45.67)" has been printed, the text is
\* "(* (- 123.0) (group 45.67))": the scanned 123 has precision 1 and prints
\* with one decimal, the scanned 45.67 prints as 45.67.
C12_BookRoundTripAmended ==
    (pc = "printed" /\ source = BookExample) =>
        /\ node.left.right.value.precision = 1
        /\ node.right.expression.value.precision = 2
        /\ result = <<"(", "*", " ", "(", "-", " ", "1", "2", "3", ".", "0", ")", " ",
                      "(", "g", "r", "o", "u", "p", " ", "4", "5", ".", "6", "7", ")", ")">>

\* C12, its case: the tree of the scan of "-123 * (45.67)" has been printed.
C12_Witness ==
    /\ pc = "printed"
    /\ source = BookExample
    /\ node.variant = "Binary"
    /\ node.left.variant = "Unary"
    /\ node.right.variant = "Grouping"

\* The visitor method named for each variant of Expr and of Stmt.
VisitorMethods ==
    {<<"Expr", "Assign", "visit_assign_expression">>,
     <<"Expr", "LiteralExpr", "visit_literal_expression">>,
     <<"Expr", "Binary", "visit_binary_expression">>,
     <<"Expr", "Call", "visit_call_expression">>,
     <<"Expr", "Get", "visit_get_expression">>,
     <<"Expr", "Grouping", "visit_grouping_expression">>,
     <<"Expr", "Logical", "visit_logical_expression">>,
     <<"Expr", "Set", "visit_set_expression">>,
     <<"Expr", "Super", "visit_super_expression">>,
     <<"Expr", "This", "visit_this_expression">>,
     <<"Expr", "Unary", "visit_unary_expression">>,
     <<"Expr", "Variable", "visit_variable_expression">>,
     <<"Stmt", "Print", "visit_print_stmt">>,
     <<"Stmt", "Block", "visit_block_stmt">>,
     <<"Stmt", "Expression", "visit_expression_stmt">>,
     <<"Stmt", "While", "visit_while_stmt">>,
     <<"Stmt", "Return", "visit_return_stmt">>,
     <<"Stmt", "Variable", "visit_variable_stmt">>,
     <<"Stmt", "If", "visit_if_stmt">>,
     <<"Stmt", "Function", "visit_function_stmt">>,
     <<"Stmt", "Class", "visit_class_stmt">>}

\* C13: what accept returns for a node and a visitor is what the visitor's
\* method named for the node's variant returns for that very node: with the
\* visitor that records its call, the method's name and the node.
C13_AcceptDispatch ==
    pc = "accepted" =>
        \E m \in VisitorMethods :
            /\ m[1] = node.enum
            /\ m[2] = node.variant
            /\ result = [method |-> m[3], arg |-> node]

\* C13, its case: accept has been called on a Set expression and on nothing
\* else, and visit_set_expression got the node.
C13_Witness ==
    /\ pc = "accepted"
    /\ node.enum = "Expr"
    /\ node.variant = "Set"
    /\ result.method = "visit_set_expression"
    /\ result.arg = node

RECURSIVE IsPrintable(_)
\* A tree of literal, unary, binary and grouping nodes only.
IsPrintable(e) ==
    /\ e.enum = "Expr"
    /\ CASE e.variant = "LiteralExpr" -> TRUE
         [] e.variant = "Unary" -> IsPrintable(e.right)
         [] e.variant = "Binary" -> IsPrintable(e.left) /\ IsPrintable(e.right)
         [] e.variant = "Grouping" -> IsPrintable(e.expression)
         [] OTHER -> FALSE

RECURSIVE PrefixNotation(_)
\* Fully parenthesized prefix notation of a tree.
PrefixNotation(e) ==
    CASE e.variant = "LiteralExpr" -> Literal_to_string(e.value)
      [] e.variant = "Unary" ->
            <<"(">> \o e.operator.lexeme \o <<" ">> \o PrefixNotation(e.right) \o <<")">>
      [] e.variant = "Binary" ->
            <<"(">> \o e.operator.lexeme \o <<" ">> \o PrefixNotation(e.left)
                \o <<" ">> \o PrefixNotation(e.right) \o <<")">>
      [] e.variant = "Grouping" ->
            <<"(", "g", "r", "o", "u", "p", " ">> \o PrefixNotation(e.expression) \o <<")">>

\* C14: the text printed for a tree of literal, unary, binary and grouping
\* nodes is its fully parenthesized prefix notation.
C14_PrefixNotation ==
    (pc = "printed" /\ IsPrintable(node)) => result = PrefixNotation(node)

\* C14, its case: a binary node over a unary node and a grouping has been
\* printed, the left operand's text before the right operand's.
C14_Witness ==
    /\ pc = "printed"
    /\ node.variant = "Binary"
    /\ node.left.variant = "Unary"
    /\ node.right.variant = "Grouping"
    /\ node.left.right # node.right.expression
    /\ result = <<"(">> \o node.operator.lexeme \o <<" ">> \o PrefixNotation(node.left)
                    \o <<" ">> \o PrefixNotation(node.right) \o <<")">>

\* The three kinds of diagnostic: the first part of their messages.
DiagnosticKinds ==
    {"Unexpected character: ", "Unterminated string.", "Parsing error on token: "}

\* C21: the error flag is false when a scan starts; in every state, the end
\* of the scan included, it is true exactly when a diagnostic (unexpected
\* character, unterminated string, number parse failure) has been reported;
\* no step resets it, no step takes a diagnostic back, and a step that
\* reports no diagnostic leaves it as it was.
C21_ErrorFlag ==
    /\ ~has_errors
    /\ [](/\ has_errors <=> (stderr # <<>>)
          /\ \A i \in 1..Len(stderr) : stderr[i].msg[1] \in DiagnosticKinds)
    /\ [][/\ has_errors => has_errors'
          /\ Len(stderr') >= Len(stderr)
          /\ SubSeq(stderr', 1, Len(stderr)) = stderr
          /\ (stderr' = stderr) => (has_errors' = has_errors)]_vars

\* C21, its case: a scan that reported a diagnostic of each kind has ended
\* with exit code 65, after steps that reported nothing.
C21_Witness ==
    /\ pc = "exit65"
    /\ has_errors
    /\ {stderr[i].msg[1] : i \in 1..Len(stderr)} = DiagnosticKinds
    /\ Len(tokens) = 1

====
